---- MODULE Spec2Model ----
(***************************************************************************)
(* Model of tools/syz-declextract/run.go: the coordinator (main), the      *)
(* worker pool, the rename table (readSyscallNames, renameSyscall) and the *)
(* merge of the collected declarations (writeOutput).                      *)
(*                                                                         *)
(* Strings are sequences of one-character strings, so that concatenation   *)
(* (name + "$auto", Name += strconv.Itoa(n)), prefixes, suffixes and       *)
(* strings.Compare are computed and not assumed.                           *)
(***************************************************************************)
EXTENDS Integers, Sequences, FiniteSets, TLC

(***************************************************************************)
(* Strings                                                                 *)
(***************************************************************************)

\* The characters the model uses, in increasing byte order.
Alphabet ==
  << "#", "$", "-", ".", "0", "1", "2", "3", "4", "5", "6", "7", "8", "9", "_",
     "a", "b", "c", "d", "e", "f", "g", "h", "i", "j", "k", "l", "m", "n", "o",
     "p", "q", "r", "s", "t", "u", "v", "w", "x", "y", "z" >>

Ord == [c \in {Alphabet[i] : i \in 1..Len(Alphabet)} |->
          CHOOSE i \in 1..Len(Alphabet) : Alphabet[i] = c]

Digits == << "0", "1", "2", "3", "4", "5", "6", "7", "8", "9" >>

\* strings.Compare: -1, 0 or +1, bytewise lexicographic.
RECURSIVE Compare(_, _)
Compare(a, b) ==
  IF a = <<>> /\ b = <<>> THEN 0
  ELSE IF a = <<>> THEN -1
  ELSE IF b = <<>> THEN 1
  ELSE IF Ord[Head(a)] < Ord[Head(b)] THEN -1
  ELSE IF Ord[Head(a)] > Ord[Head(b)] THEN 1
  ELSE Compare(Tail(a), Tail(b))

\* strings.HasPrefix, strings.HasSuffix, strings.TrimPrefix
HasPrefix(s, p) == Len(s) >= Len(p) /\ SubSeq(s, 1, Len(p)) = p
HasSuffix(s, p) == Len(s) >= Len(p) /\ SubSeq(s, Len(s) - Len(p) + 1, Len(s)) = p
TrimPrefix(s, p) == IF HasPrefix(s, p) THEN SubSeq(s, Len(p) + 1, Len(s)) ELSE s

\* strconv.Itoa for n >= 0
RECURSIVE Itoa(_)
Itoa(n) == IF n < 10 THEN << Digits[n + 1] >>
           ELSE Itoa(n \div 10) \o << Digits[(n % 10) + 1] >>

(***************************************************************************)
(* package slices                                                          *)
(***************************************************************************)

\* slices.SortFunc: insertion sort, each element moved left while
\* cmp(element, left neighbour) < 0. Go sorts slices of at most 12 elements
\* this way; for longer ones its result can differ only in the order of
\* elements that compare equal.
SortFunc(s, cmp(_, _)) ==
  LET InsertInto(t, x) ==
        LET place[j \in 0..Len(t)] ==
              IF j = 0 THEN 0
              ELSE IF cmp(x, t[j]) < 0 THEN place[j - 1] ELSE j
            pos == place[Len(t)]
        IN SubSeq(t, 1, pos) \o << x >> \o SubSeq(t, pos + 1, Len(t))
      sorted[k \in 0..Len(s)] ==
        IF k = 0 THEN << >> ELSE InsertInto(sorted[k - 1], s[k])
  IN sorted[Len(s)]

\* slices.CompactFunc: of every run of consecutive elements with
\* eq(s[k], s[k-1]), the first one is kept.
CompactFunc(s, eq(_, _)) ==
  LET kept[k \in 0..Len(s)] ==
        IF k = 0 THEN << >>
        ELSE IF k > 1 /\ eq(s[k], s[k - 1]) THEN kept[k - 1]
        ELSE Append(kept[k - 1], s[k])
  IN kept[Len(s)]

\* slices.BinarySearchFunc: the "found" result.
BinarySearchFunc(x, target, cmp(_, _)) ==
  LET n == Len(x)
      find[p \in (0..n) \X (0..n)] ==
        IF p[1] >= p[2] THEN p[1]
        ELSE LET h == (p[1] + p[2]) \div 2
             IN IF cmp(x[h + 1], target) < 0 THEN find[<< h + 1, p[2] >>]
                ELSE find[<< p[1], h >>]
      i == find[<< 0, n >>]
  IN i < n /\ cmp(x[i + 1], target) = 0

\* slices.CompareFunc: elementwise, then by length.
CompareFunc(a, b, cmp(_, _)) ==
  LET n == IF Len(a) < Len(b) THEN Len(a) ELSE Len(b)
      from[k \in 1..(n + 1)] ==
        IF k > n
          THEN (IF Len(a) < Len(b) THEN -1 ELSE IF Len(a) > Len(b) THEN 1 ELSE 0)
        ELSE IF cmp(a[k], b[k]) # 0 THEN cmp(a[k], b[k])
        ELSE from[k + 1]
  IN from[1]

(***************************************************************************)
(* Program constants                                                       *)
(***************************************************************************)

sendmsg == << "s", "e", "n", "d", "m", "s", "g" >>

genetlinkGetFamilyId ==
  << "s", "y", "z", "_", "g", "e", "n", "e", "t", "l", "i", "n", "k", "_",
     "g", "e", "t", "_", "f", "a", "m", "i", "l", "y", "_", "i", "d" >>

reboot == << "r", "e", "b", "o", "o", "t" >>

utimesat == << "u", "t", "i", "m", "e", "s", "a", "t" >>

AutoSuffix == << "$", "a", "u", "t", "o" >>

TblSuffix == << ".", "t", "b", "l" >>

CSuffix == << ".", "c" >>

SysPrefix == << "s", "y", "s", "_" >>

Hash == << "#" >>

Dash == << "-" >>

UnusedPrefix == << "u", "n", "u", "s", "e", "d" >>

CompatPrefix == << "c", "o", "m", "p", "a", "t" >>

Ia32Prefix == << "s", "y", "s", "_", "i", "a", "3", "2" >>

NiSyscall ==
  << "s", "y", "s", "_", "n", "i", "_", "s", "y", "s", "c", "a", "l", "l" >>

(***************************************************************************)
(* The rename table                                                        *)
(***************************************************************************)

shouldRenameSyscall(syscall) ==
  IF syscall = sendmsg \/ syscall = genetlinkGetFamilyId THEN FALSE ELSE TRUE

isProhibited(syscall) ==
  IF syscall = reboot \/ syscall = utimesat THEN TRUE ELSE FALSE

\* The test of a table line (a sequence of whitespace-separated fields): TRUE
\* when the line is skipped.
SkipLine(fields) ==
  \/ Len(fields) < 4
  \/ fields[1] = Hash
  \/ HasPrefix(fields[3], UnusedPrefix)
  \/ fields[4] = Dash
  \/ HasPrefix(fields[4], CompatPrefix)
  \/ HasPrefix(fields[4], Ia32Prefix)
  \/ fields[4] = NiSyscall

\* The callback of filepath.Walk: the lines of one visited file that are
\* recorded. A file is [Path, Symlink, Lines].
WalkFile(f) ==
  IF ~HasSuffix(f.Path, TblSuffix) THEN << >>
  ELSE IF f.Symlink THEN << >>
  ELSE SelectSeq(f.Lines, LAMBDA fields : ~SkipLine(fields))

\* The names of a key sorted but not compacted.
SortOnlyNames(names) == SortFunc(names, Compare)

\* The names of a key after the sort and compaction of its list.
SortCompactNames(names) ==
  CompactFunc(SortFunc(names, Compare), LAMBDA a, b : a = b)

\* readSyscallNames over the files the walks visit, in visiting order: a
\* function from entry point to its sorted list of names; an entry point with
\* no record is outside its domain (rename[key] == nil).
readSyscallNames(tblFiles) ==
  LET all[k \in 0..Len(tblFiles)] ==
        IF k = 0 THEN << >> ELSE all[k - 1] \o WalkFile(tblFiles[k])
      kept == all[Len(tblFiles)]
      Key(fields) == TrimPrefix(fields[4], SysPrefix)
      keys == { Key(kept[i]) : i \in 1..Len(kept) }
      appended(key) ==
        LET acc[k \in 0..Len(kept)] ==
              IF k = 0 THEN << >>
              ELSE IF Key(kept[k]) = key THEN Append(acc[k - 1], kept[k][3])
              ELSE acc[k - 1]
        IN acc[Len(kept)]
  IN [key \in keys |-> SortCompactNames(appended(key))]

\* renameSyscall: the declarations a syscall declaration is replaced by.
renameSyscall(syscall, rename) ==
  IF ~shouldRenameSyscall(syscall.CallName) THEN << syscall >>
  ELSE IF syscall.CallName \notin DOMAIN rename THEN << >>
  ELSE LET names == rename[syscall.CallName]
           renamed[k \in 0..Len(names)] ==
             IF k = 0 THEN << >>
             ELSE IF isProhibited(names[k]) THEN renamed[k - 1]
             ELSE Append(renamed[k - 1],
                         [syscall EXCEPT !.Name = names[k] \o AutoSuffix,
                                         !.CallName = names[k]])
       IN renamed[Len(names)]

(***************************************************************************)
(* writeOutput                                                             *)
(***************************************************************************)

\* sendmsg(_, msg ptr[_, msghdr_auto[_, PolicyName]], _): the policy name.
Policy(call) == call.Args[2].Type.Args[2].Args[2].Ident

IncludeCmp(a, b) == Compare(a.File, b.File)

NameCmp(a, b) == Compare(a.Name, b.Name)

\* A comparison of syscalls by exposed name alone.
SyscallCmpNameOnly(a, b) == Compare(a.Name, b.Name)

\* The comparison function of the sort of the syscalls.
SyscallCmp(a, b) ==
  LET nameCmp == Compare(a.Name, b.Name)
  IN IF nameCmp # 0 THEN nameCmp
     ELSE IF a.CallName = sendmsg THEN Compare(Policy(a), Policy(b))
     ELSE CompareFunc(a.Args, b.Args, NameCmp)

SortIncludes(incs) ==
  CompactFunc(SortFunc(incs, IncludeCmp), LAMBDA a, b : a.File = b.File)

\* The syscalls left in the order of collection.
UnsortedSyscalls(calls) == calls

SortSyscalls(calls) == SortFunc(calls, SyscallCmp)

\* The syscalls with no suffix appended.
NoSuffix(calls) == calls

\* The loop that appends sendmsgNo to the name of every sendmsg declaration.
SuffixSendmsg(calls) ==
  LET step[k \in 0..Len(calls)] ==
        IF k = 0 THEN [out |-> << >>, sendmsgNo |-> 0]
        ELSE LET prev == step[k - 1]
                 node == calls[k]
             IN IF node.CallName = sendmsg
                  THEN [out |-> Append(prev.out,
                                  [node EXCEPT !.Name = @ \o Itoa(prev.sendmsgNo)]),
                        sendmsgNo |-> prev.sendmsgNo + 1]
                  ELSE [out |-> Append(prev.out, node),
                        sendmsgNo |-> prev.sendmsgNo]
  IN step[Len(calls)].out

CompactSyscalls(calls) == CompactFunc(calls, LAMBDA a, b : a.Name = b.Name)

\* The nodes left in the order of collection.
Unsorted(nodes) == nodes

SortByName(nodes) == SortFunc(nodes, NameCmp)

\* TRUE for a sendmsg declaration of the policy-qualified shape.
IsPolicySendmsg(node) ==
  node.CallName = sendmsg /\ Len(node.Args[2].Type.Args) = 2

\* The binary search of the sorted netlink structs for a policy name.
IsDefined(sortedNetlinks, policy) ==
  BinarySearchFunc(sortedNetlinks, policy, LAMBDA a, b : Compare(a.Name, b))

\* usedNetlink after the loop over the merged syscalls.
UsedNetlink(merged) ==
  { Policy(merged[i]) : i \in { j \in 1..Len(merged) : IsPolicySendmsg(merged[j]) } }

\* The syscalls appended to desc.Nodes by the loop over the merged syscalls.
EmittedSyscalls(merged, sortedNetlinks) ==
  SelectSeq(merged, LAMBDA node :
    ~(IsPolicySendmsg(node) /\ ~IsDefined(sortedNetlinks, Policy(node))))

\* The names of all the structs, used or not.
AllNetlinkNames(sortedNetlinks, used) ==
  [k \in 1..Len(sortedNetlinks) |-> sortedNetlinks[k].Name]

\* netlinkNames before formatting: the names of the structs not marked used.
NetlinkNames(sortedNetlinks, used) ==
  LET names[k \in 0..Len(sortedNetlinks)] ==
        IF k = 0 THEN << >>
        ELSE IF sortedNetlinks[k].Name \notin used
          THEN Append(names[k - 1], sortedNetlinks[k].Name)
        ELSE names[k - 1]
  IN names[Len(sortedNetlinks)]

PolicyWord == << "p", "o", "l", "i", "c", "y" >>

\* The lines "\tpolicy%v msghdr_auto[%v]\n" of auto_union.
UnionArms(netlinkNames) ==
  [i \in 1..Len(netlinkNames) |->
     [Name |-> PolicyWord \o Itoa(i - 1), Policy |-> netlinkNames[i]]]

\* The locals of writeOutput once the buckets are sorted and compacted.
Merge(incs, calls, links, types, res) ==
  [includes  |-> SortIncludes(incs),
   syscalls  |-> CompactSyscalls(SuffixSendmsg(SortSyscalls(calls))),
   netlinks  |-> SortByName(links),
   resources |-> SortByName(res),
   types     |-> SortByName(types)]

\* The description written to the output file, section by section in the
\* order of desc.Nodes; the fixed text is kept as text.
Description(m) ==
  [Notice    |-> "# Code generated by syz-declextract. DO NOT EDIT.",
   Headers   |-> << "include <include/vdso/bits.h>", "include <include/linux/types.h>" >>,
   Includes  |-> m.includes,
   Resources |-> m.resources,
   Types     |-> m.types,
   Syscalls  |-> EmittedSyscalls(m.syscalls, m.netlinks),
   Mmap2     |-> "_ = __NR_mmap2",
   Netlinks  |-> m.netlinks,
   Union     |-> UnionArms(NetlinkNames(m.netlinks, UsedNetlink(m.syscalls)))]

(***************************************************************************)
(* Inputs: table files, source files and what the extraction tool prints   *)
(***************************************************************************)

NumUnits == 2

NumCPU == 2

Units == 1..NumUnits

Workers == 1..NumCPU

setuid == << "s", "e", "t", "u", "i", "d" >>
setuid16 == << "s", "e", "t", "u", "i", "d", "1", "6" >>
setuid32 == << "s", "e", "t", "u", "i", "d", "3", "2" >>
futimesat == << "f", "u", "t", "i", "m", "e", "s", "a", "t" >>
foo == << "f", "o", "o" >>
common == << "c", "o", "m", "m", "o", "n" >>

\* A table line is the sequence of its fields.
X86Lines ==
  << << Hash, << "t", "h", "e" >>, << "x", "8", "6" >>, << "t", "a", "b", "l", "e" >> >>,
     << << "1", "0", "5" >>, common, setuid, SysPrefix \o setuid >>,
     << << "2", "3" >>, << "i", "3", "8", "6" >>, setuid, SysPrefix \o setuid16 >>,
     << << "2", "1", "3" >>, << "i", "3", "8", "6" >>, setuid32, SysPrefix \o setuid >>,
     << << "8", "8" >>, common, reboot, SysPrefix \o reboot >>,
     << << "2", "6", "1" >>, common, futimesat, SysPrefix \o futimesat >>,
     << << "1", "7" >>, common, UnusedPrefix \o << "1", "7" >>, SysPrefix \o foo >>,
     << << "4" >>, << "x", "3", "2" >>, foo >>,
     << << "9" >>, common, foo, Dash >>,
     << << "5" >>, << "i", "3", "8", "6" >>, foo, CompatPrefix \o << "_" >> \o SysPrefix \o foo >>,
     << << "6" >>, << "i", "3", "8", "6" >>, foo, Ia32Prefix \o << "_" >> \o foo >>,
     << << "7" >>, common, foo, NiSyscall >> >>

ArmLines ==
  << << << "2", "1", "3" >>, common, setuid, SysPrefix \o setuid >>,
     << << "2", "6", "1" >>, common, utimesat, SysPrefix \o futimesat >> >>

FooLines == << << << "1" >>, common, foo, SysPrefix \o foo >> >>

X86Tbl == [Path |-> << "x", "8", "6" >> \o TblSuffix, Symlink |-> FALSE, Lines |-> X86Lines]
ArmTbl == [Path |-> << "a", "r", "m" >> \o TblSuffix, Symlink |-> FALSE, Lines |-> ArmLines]
LinkTbl == [Path |-> << "l", "n" >> \o TblSuffix, Symlink |-> TRUE, Lines |-> FooLines]
Makefile == [Path |-> << "m", "a", "k", "e" >>, Symlink |-> FALSE, Lines |-> FooLines]

\* The kernel trees: the files under arch/ in the order the walks visit them.
KernelTrees ==
  { << X86Tbl, ArmTbl, LinkTbl, Makefile >>, << LinkTbl, ArmTbl >> }

\* Type expressions, fields and declarations as package ast holds them.
Ty(ident) == [Ident |-> ident, Args |-> << >>]
TyArgs(ident, args) == [Ident |-> ident, Args |-> args]
Arg(name, type) == [Name |-> name, Type |-> type]

int16 == Ty(<< "i", "n", "t", "1", "6" >>)
int32 == Ty(<< "i", "n", "t", "3", "2" >>)
uid == << "u", "i", "d" >>
id == << "i", "d" >>
fd == << "f", "d" >>
msg == << "m", "s", "g" >>
ptr == << "p", "t", "r" >>
in == << "i", "n" >>
msghdrAuto == << "m", "s", "g", "h", "d", "r", "_", "a", "u", "t", "o" >>
pa == << "p", "a" >>
pb == << "p", "b" >>
pd == << "p", "d" >>

\* ast.Parse sets CallName to the part of the name before the "$".
callName(name) ==
  LET cut[k \in 0..Len(name)] ==
        IF k = Len(name) THEN Len(name)
        ELSE IF name[k + 1] = "$" THEN k ELSE cut[k + 1]
  IN SubSeq(name, 1, cut[0])

Call(name, args) ==
  [kind |-> "call", Name |-> name, CallName |-> callName(name), Args |-> args]

\* sendmsg$<cmd>(fd sock_nl_generic, msg ptr[in, msghdr_auto[<cmd>, <policy>]], f flags[send_flags])
Sendmsg(cmd, policy) ==
  Call(sendmsg \o << "$" >> \o cmd,
       << Arg(fd, Ty(<< "s", "o", "c", "k" >>)),
          Arg(msg, TyArgs(ptr, << Ty(in), TyArgs(msghdrAuto, << Ty(cmd), Ty(policy) >>) >>)),
          Arg(<< "f" >>, Ty(<< "f", "l", "a", "g", "s" >>)) >>)

Struct(name, body) == [kind |-> "struct", Name |-> name, Fields |-> body]
Include(file) == [kind |-> "include", File |-> file]
TypeDef(name, type) == [kind |-> "typedef", Name |-> name, Type |-> type]
Resource(name, base) == [kind |-> "resource", Name |-> name, Base |-> base]
NewLine == [kind |-> "newline"]

\* What the tool prints for a source file, as the nodes ast.Parse reads from it.
\* One file declares eleven sendmsg commands, so that the suffixes reach two
\* digits.
ToolOutputs ==
  { << >>,
    << Include(<< "b", ".", "h" >>), Call(setuid, << Arg(uid, int32) >>), NewLine >>,
    << Include(<< "a", ".", "h" >>), Call(setuid16, << Arg(uid, int16) >>) >>,
    << Call(setuid, << Arg(id, int32) >>), Call(reboot, << Arg(<< "c" >>, int32) >>) >>,
    << Call(futimesat, << Arg(fd, int32) >>), Call(foo, << >>),
       Include(<< "a", ".", "h" >>) >>,
    << Sendmsg(<< "g" >>, pa), Struct(pa, << Arg(<< "a" >>, int32) >>) >>,
    << Sendmsg(<< "g" >>, pb), Struct(pd, << >>) >>,
    << Sendmsg(<< "g" >>, pa) >>,
    [i \in 1..11 |-> IF i = 1 THEN Sendmsg(<< "g", "1" >>, pa) ELSE Sendmsg(<< "g" >>, pa)],
    << Sendmsg(<< "g", "0" >>, pa),
       Call(genetlinkGetFamilyId \o AutoSuffix, << Arg(<< "n" >>, int32) >>) >>,
    << Struct(pa, << Arg(<< "b" >>, int16) >>), Resource(<< "r", "b" >>, int32),
       TypeDef(<< "t", "b" >>, int32) >>,
    << Struct(pb, << >>), Resource(<< "r", "a" >>, int32), TypeDef(<< "t", "a" >>, int16),
       Call(genetlinkGetFamilyId \o AutoSuffix, << Arg(<< "m" >>, int32) >>) >> }

\* The text on a pipe: the nodes ast.Parse reads from it, or text it rejects.
Text(nodes) == [Nodes |-> nodes, Ok |-> TRUE]
Garbage == [Nodes |-> << >>, Ok |-> FALSE]
EmptyText == Text(<< >>)

\* One run of the tool (cmd.Output): its standard output, the kind of error
\* returned ("nil", "exit" for *exec.ExitError, "other") and the captured
\* error stream.
Ran(nodes) == [Stdout |-> Text(nodes), Err |-> "nil", Stderr |-> << >>]
ExitedWith(stderr) == [Stdout |-> EmptyText, Err |-> "exit", Stderr |-> stderr]
NotStarted == [Stdout |-> EmptyText, Err |-> "other", Stderr |-> << >>]
PrintedGarbage == [Stdout |-> Garbage, Err |-> "nil", Stderr |-> << >>]

CFile == << "a" >> \o CSuffix
HFile == << "a", ".", "h" >>

\* A source of the merge runs: a C file the tool reads without error.
MergeSources == { [File |-> CFile, Run |-> Ran(o)] : o \in ToolOutputs }

\* The sources of the pipeline runs: files with and without the .c suffix and
\* every way a run of the tool ends.
PipelineSources ==
  { [File |-> HFile, Run |-> NotStarted],
    [File |-> CFile, Run |-> Ran(<< Call(setuid, << Arg(uid, int32) >>) >>)],
    [File |-> CFile, Run |-> ExitedWith(<< "e", "r", "r" >>)],
    [File |-> CFile, Run |-> ExitedWith(<< >>)],
    [File |-> CFile, Run |-> NotStarted],
    [File |-> CFile, Run |-> PrintedGarbage] }

(***************************************************************************)
(* State                                                                   *)
(***************************************************************************)

VARIABLES
  cmds,         \* the compilation units in database order
  source,       \* unit -> its file name and what the tool does on it
  tblFiles,     \* the table files under the kernel's arch directory
  pc,           \* the coordinator's position in main
  started,      \* number of workers launched
  sent,         \* number of files submitted
  files,        \* the files channel
  closed,       \* the files channel is closed
  outputs,      \* the outputs channel
  wst,          \* worker -> "unborn", "recv", "run", "exited"
  wfile,        \* worker -> the unit it holds (0: none)
  syscallNames, \* the rename table (Unset before readSyscallNames returns)
  syscalls, netlinks, includes, typeDefs, resources,
  drained,      \* the results the coordinator has taken from outputs
  taken,        \* unit -> number of times a worker took it
  produced,     \* unit -> number of results sent for it
  locals,       \* the sorted and compacted buckets of writeOutput
  outFile       \* the output file (NoFile until written)

vars == << cmds, source, tblFiles, pc, started, sent, files, closed, outputs,
           wst, wfile, syscallNames, syscalls, netlinks, includes, typeDefs,
           resources, drained, taken, produced, locals, outFile >>

env == << cmds, source, tblFiles >>
accumulators == << syscalls, netlinks, includes, typeDefs, resources >>
workerVars == << wst, wfile, taken, produced >>

\* The variable syscallNames before and after its assignment; a map that was
\* never assigned has no keys.
Unset == [built |-> FALSE]
Built(table) == [built |-> TRUE, table |-> table]
TableOf(names) == IF names.built THEN names.table ELSE [key \in {} |-> << >>]
NoFile == [written |-> FALSE]
NoLocals == [entered |-> FALSE]

Perms(S) == { f \in [1..Cardinality(S) -> S] : \A a \in S : \E i \in DOMAIN f : f[i] = a }

\* len(cmds): the capacity of both channels.
Cap == Len(cmds)

\* The process runs until main returns or tool.Fail exits.
Running == pc \notin { "done", "failed" }

(***************************************************************************)
(* worker                                                                  *)
(***************************************************************************)

\* The stderr field of the output a worker sends for a run of the tool.
WorkerStderr(file, run) ==
  IF run.Err = "nil" THEN << >>
  ELSE IF run.Err = "exit"
    THEN (IF Len(run.Stderr) # 0 THEN run.Stderr
          ELSE file \o << ":", " " >> \o << "e", "x", "i", "t" >>)
  ELSE << "e", "x", "e", "c" >>

\* The output a worker sends for a file.
WorkerOutput(file, run) ==
  IF ~HasSuffix(file, CSuffix) THEN [stdout |-> EmptyText, stderr |-> << >>]
  ELSE [stdout |-> run.Stdout, stderr |-> WorkerStderr(file, run)]

\* A receive that leaves the file in the channel.
WorkerRecvPeek(k) ==
  /\ Running
  /\ wst[k] = "recv"
  /\ files # << >>
  /\ wfile' = [wfile EXCEPT ![k] = Head(files)]
  /\ files' = files
  /\ taken' = [taken EXCEPT ![Head(files)] = @ + 1]
  /\ wst' = [wst EXCEPT ![k] = "run"]
  /\ UNCHANGED << env, pc, started, sent, closed, outputs, syscallNames,
                  accumulators, drained, produced, locals, outFile >>

\* for file := range files: a worker takes the next file of the channel.
WorkerRecv(k) ==
  /\ Running
  /\ wst[k] = "recv"
  /\ files # << >>
  /\ wfile' = [wfile EXCEPT ![k] = Head(files)]
  /\ files' = Tail(files)
  /\ taken' = [taken EXCEPT ![Head(files)] = @ + 1]
  /\ wst' = [wst EXCEPT ![k] = "run"]
  /\ UNCHANGED << env, pc, started, sent, closed, outputs, syscallNames,
                  accumulators, drained, produced, locals, outFile >>

\* The body of the loop: run the tool unless the file is no C file, and send
\* the output; the send waits while the channel is full.
WorkerRun(k) ==
  /\ Running
  /\ wst[k] = "run"
  /\ Len(outputs) < Cap
  /\ outputs' = Append(outputs,
                  WorkerOutput(source[wfile[k]].File, source[wfile[k]].Run))
  /\ produced' = [produced EXCEPT ![wfile[k]] = @ + 1]
  /\ wfile' = [wfile EXCEPT ![k] = 0]
  /\ wst' = [wst EXCEPT ![k] = "recv"]
  /\ UNCHANGED << env, pc, started, sent, files, closed, syscallNames,
                  accumulators, drained, taken, locals, outFile >>

\* The range loop ends once the channel is closed and empty.
WorkerExit(k) ==
  /\ Running
  /\ wst[k] = "recv"
  /\ closed
  /\ files = << >>
  /\ wst' = [wst EXCEPT ![k] = "exited"]
  /\ UNCHANGED << env, pc, started, sent, files, closed, outputs, wfile,
                  syscallNames, accumulators, drained, taken, produced, locals,
                  outFile >>

(***************************************************************************)
(* main                                                                    *)
(***************************************************************************)

\* go worker(...): one iteration of the loop that starts the workers.
Launch ==
  /\ pc = "launch"
  /\ started' = started + 1
  /\ wst' = [wst EXCEPT ![started + 1] = "recv"]
  /\ pc' = IF started + 1 = NumCPU THEN "submit" ELSE "launch"
  /\ UNCHANGED << env, sent, files, closed, outputs, wfile, syscallNames,
                  accumulators, drained, taken, produced, locals, outFile >>

\* A coordinator that goes from the submissions straight to the drain loop.
SubmitThenDrain ==
  /\ pc = "submit"
  /\ Len(files) < Cap
  /\ files' = Append(files, cmds[sent + 1])
  /\ sent' = sent + 1
  /\ pc' = IF sent + 1 = Len(cmds) THEN "drain" ELSE "submit"
  /\ UNCHANGED << env, started, closed, outputs, workerVars, syscallNames,
                  accumulators, drained, locals, outFile >>

\* files <- v.File: one iteration of the loop over cmds.
Submit ==
  /\ pc = "submit"
  /\ Len(files) < Cap
  /\ files' = Append(files, cmds[sent + 1])
  /\ sent' = sent + 1
  /\ pc' = IF sent + 1 = Len(cmds) THEN "names" ELSE "submit"
  /\ UNCHANGED << env, started, closed, outputs, workerVars, syscallNames,
                  accumulators, drained, locals, outFile >>

\* syscallNames := readSyscallNames(...)
ReadNames ==
  /\ pc = "names"
  /\ syscallNames' = Built(readSyscallNames(tblFiles))
  /\ pc' = "drain"
  /\ UNCHANGED << env, started, sent, files, closed, outputs, workerVars,
                  accumulators, drained, locals, outFile >>

\* The nodes of one kind among the parsed nodes.
OfKind(nodes, kind) == SelectSeq(nodes, LAMBDA node : node.kind = kind)

\* The syscalls appended for the parsed nodes, in order.
RenamedCalls(nodes, rename) ==
  LET calls == OfKind(nodes, "call")
      acc[k \in 0..Len(calls)] ==
        IF k = 0 THEN << >> ELSE acc[k - 1] \o renameSyscall(calls[k], rename)
  IN acc[Len(calls)]

\* The two tests that end the process with tool.Failf: error text, or
\* standard output that ast.Parse rejects.
FatalParseOnly(out) == ~out.stdout.Ok

Fatal(out) == out.stderr # << >> \/ ~out.stdout.Ok

\* out := <-outputs and the body of the loop that drains the results.
Drain ==
  /\ pc = "drain"
  /\ outputs # << >>
  /\ LET out == Head(outputs)
     IN /\ outputs' = Tail(outputs)
        /\ drained' = Append(drained, out)
        /\ IF Fatal(out)
             THEN /\ pc' = "failed"
                  /\ UNCHANGED accumulators
             ELSE /\ syscalls' = syscalls \o RenamedCalls(out.stdout.Nodes, TableOf(syscallNames))
                  /\ netlinks' = netlinks \o OfKind(out.stdout.Nodes, "struct")
                  /\ includes' = includes \o OfKind(out.stdout.Nodes, "include")
                  /\ typeDefs' = typeDefs \o OfKind(out.stdout.Nodes, "typedef")
                  /\ resources' = resources \o OfKind(out.stdout.Nodes, "resource")
                  /\ pc' = IF Len(drained) + 1 = Len(cmds) THEN "close" ELSE "drain"
  /\ UNCHANGED << env, started, sent, files, closed, workerVars, syscallNames,
                  locals, outFile >>

\* close(files)
CloseFiles ==
  /\ pc = "close"
  /\ closed' = TRUE
  /\ pc' = "write"
  /\ UNCHANGED << env, started, sent, files, outputs, workerVars, syscallNames,
                  accumulators, drained, locals, outFile >>

\* writeOutput(includes, syscalls, netlinks, typeDefs, resources, *outFile)
WriteOutput ==
  /\ pc = "write"
  /\ locals' = Merge(includes, syscalls, netlinks, typeDefs, resources)
  /\ outFile' = Description(locals')
  /\ pc' = "done"
  /\ UNCHANGED << env, started, sent, files, closed, outputs, workerVars,
                  syscallNames, accumulators, drained >>

(***************************************************************************)
(* Specifications                                                          *)
(***************************************************************************)

\* The whole pipeline, from the creation of the channels.
Init ==
  /\ cmds \in Perms(Units)
  /\ source \in [Units -> PipelineSources]
  /\ tblFiles = << X86Tbl, ArmTbl, LinkTbl, Makefile >>
  /\ pc = "launch"
  /\ started = 0
  /\ sent = 0
  /\ files = << >>
  /\ closed = FALSE
  /\ outputs = << >>
  /\ wst = [k \in Workers |-> "unborn"]
  /\ wfile = [k \in Workers |-> 0]
  /\ syscallNames = Unset
  /\ syscalls = << >> /\ netlinks = << >> /\ includes = << >>
  /\ typeDefs = << >> /\ resources = << >>
  /\ drained = << >>
  /\ taken = [u \in Units |-> 0]
  /\ produced = [u \in Units |-> 0]
  /\ locals = NoLocals
  /\ outFile = NoFile

Next ==
  \/ Launch
  \/ Submit
  \/ ReadNames
  \/ Drain
  \/ CloseFiles
  \/ WriteOutput
  \/ \E k \in Workers : WorkerRecv(k)
  \/ \E k \in Workers : WorkerRun(k)
  \/ \E k \in Workers : WorkerExit(k)

Spec == Init /\ [][Next]_vars

\* The merge of what the tool prints: the state in which every file has been
\* run without error, the results wait in the outputs channel in any order of
\* delivery, and the coordinator is about to drain them.
InitMerge ==
  /\ cmds = [i \in 1..NumUnits |-> i]
  /\ source \in [Units -> MergeSources]
  /\ tblFiles \in KernelTrees
  /\ pc = "drain"
  /\ started = NumCPU
  /\ sent = NumUnits
  /\ files = << >>
  /\ closed = FALSE
  /\ outputs \in { [i \in 1..NumUnits |-> WorkerOutput(source[p[i]].File, source[p[i]].Run)] :
                     p \in Perms(Units) }
  /\ wst = [k \in Workers |-> "recv"]
  /\ wfile = [k \in Workers |-> 0]
  /\ syscallNames = Built(readSyscallNames(tblFiles))
  /\ syscalls = << >> /\ netlinks = << >> /\ includes = << >>
  /\ typeDefs = << >> /\ resources = << >>
  /\ drained = << >>
  /\ taken = [u \in Units |-> 1]
  /\ produced = [u \in Units |-> 1]
  /\ locals = NoLocals
  /\ outFile = NoFile

NextMerge ==
  \/ Drain
  \/ CloseFiles
  \/ WriteOutput

SpecMerge == InitMerge /\ [][NextMerge]_vars

(***************************************************************************)
(* Properties of the pipeline (Spec)                                       *)
(***************************************************************************)

\* C2. No partial output: a drained result with error text is the last one
\* drained, the process has then failed and the output file is not written;
\* the output file is written only after one result per compilation unit has
\* been drained and each of them had empty error text.
NoPartialOutput ==
  /\ \A i \in 1..Len(drained) :
       drained[i].stderr # << >> =>
         /\ i = Len(drained)
         /\ pc = "failed"
         /\ outFile = NoFile
  /\ outFile # NoFile =>
       /\ Len(drained) = Len(cmds)
       /\ \A i \in 1..Len(drained) : drained[i].stderr = << >>

\* C2 witness: the second result drained carries error text and the process
\* has failed after a first result was collected.
NoPartialOutputWitness ==
  /\ pc = "failed"
  /\ Len(drained) = 2
  /\ drained[2].stderr # << >>
  /\ syscalls # << >>
  /\ outFile = NoFile

\* C8 as claimed: whenever a worker has been launched, the rename table has
\* its final value (it was built before and is not written afterwards).
TableBuiltBeforeWorkers ==
  (\E k \in Workers : wst[k] # "unborn") => syscallNames = Built(readSyscallNames(tblFiles))

\* C8 amended: the rename table is not built while the workers are launched
\* and the files submitted; it has its final value from the moment the
\* coordinator enters the drain loop, so before any result is drained, and
\* keeps it; workers run while it is built.
TableBuiltBeforeDrain ==
  /\ pc \in { "launch", "submit", "names" } =>
       syscallNames = Unset /\ drained = << >>
  /\ pc \notin { "launch", "submit", "names" } =>
       syscallNames = Built(readSyscallNames(tblFiles))
  /\ pc = "names" => \A k \in Workers : wst[k] # "unborn"

\* C8 witness: the table is built and the first result has been drained and
\* renamed with it, while a worker still holds a file.
TableBuiltBeforeDrainWitness ==
  /\ pc = "drain"
  /\ Len(drained) = 1
  /\ syscalls # << >>
  /\ syscallNames = Built(readSyscallNames(tblFiles))
  /\ \E k \in Workers : wst[k] = "run"

\* C9. No worker blocks on its send: the outputs channel never holds more
\* than its capacity and has room whenever a worker is about to send; every
\* file is taken by at most one worker and yields at most one result; once
\* the drain loop is over, every file was taken once, yielded one result, and
\* the coordinator drained one result per unit.
NoWorkerBlocks ==
  /\ Len(outputs) <= Cap
  /\ \A k \in Workers : wst[k] = "run" => Len(outputs) < Cap
  /\ \A u \in Units : taken[u] <= 1 /\ produced[u] <= taken[u]
  /\ Len(drained) <= Cap
  /\ pc \in { "close", "write", "done" } =>
       /\ Len(drained) = Cap
       /\ outputs = << >>
       /\ \A u \in Units : taken[u] = 1 /\ produced[u] = 1

\* C9 witness: the outputs channel is filled to its capacity by the workers
\* before the coordinator drains anything.
NoWorkerBlocksWitness ==
  /\ Len(outputs) = Cap
  /\ Cap >= 2
  /\ drained = << >>
  /\ \A u \in Units : produced[u] = 1

(***************************************************************************)
(* Properties of the rename and of the merge (SpecMerge)                   *)
(***************************************************************************)

Range(seq) == { seq[i] : i \in 1..Len(seq) }

\* The nodes of the results behind the outputs, taken in the order p of units.
NodesIn(p) ==
  LET all[k \in 0..Len(p)] ==
        IF k = 0 THEN << >>
        ELSE all[k - 1] \o WorkerOutput(source[p[k]].File, source[p[k]].Run).stdout.Nodes
  IN all[Len(p)]

\* The output file when the results are drained in the order p of units.
OutputFor(p) ==
  LET nodes == NodesIn(p)
  IN Description(Merge(OfKind(nodes, "include"),
                       RenamedCalls(nodes, TableOf(syscallNames)),
                       OfKind(nodes, "struct"),
                       OfKind(nodes, "typedef"),
                       OfKind(nodes, "resource")))

\* C1. Determinism: the description written is the same for every order in
\* which the results of the compilation units can be drained.
Determinism ==
  pc = "done" => \A p \in Perms(Units) : OutputFor(p) = outFile

\* The syscall declarations the tool can print.
CallNodes == UNION { { n \in Range(o) : n.kind = "call" } : o \in ToolOutputs }

\* C3. Rename fan-out: for a declaration whose entry point is not exempt,
\* renameSyscall returns one declaration per name of the table's list for
\* the entry point that is not prohibited, named <name>$auto with entry point
\* <name> and the arguments of the original, and nothing else: nothing when
\* the entry point has no record, and nothing for reboot or utimesat.
RenameFanOut ==
  \A c \in CallNodes :
    c.CallName \notin { sendmsg, genetlinkGetFamilyId } =>
      LET table == TableOf(syscallNames)
          names == IF c.CallName \in DOMAIN table
                     THEN Range(table[c.CallName]) \ { reboot, utimesat }
                     ELSE { }
          out == renameSyscall(c, table)
      IN /\ Len(out) = Cardinality(names)
         /\ \A n \in names : \E i \in 1..Len(out) :
              out[i] = [c EXCEPT !.Name = n \o AutoSuffix, !.CallName = n]
         /\ \A i \in 1..Len(out) :
              /\ out[i].CallName \in names
              /\ out[i].Name = out[i].CallName \o AutoSuffix
              /\ out[i].Name \notin { reboot \o AutoSuffix, utimesat \o AutoSuffix }

\* C3 witness: the first result drained declared setuid (two names in the
\* table) and reboot (prohibited); exactly setuid$auto and setuid32$auto were
\* collected.
RenameFanOutWitness ==
  /\ Len(drained) = 1
  /\ \E j \in 1..Len(drained[1].stdout.Nodes) :
       /\ drained[1].stdout.Nodes[j].kind = "call"
       /\ drained[1].stdout.Nodes[j].CallName = reboot
  /\ Len(syscalls) = 2
  /\ syscalls[1].Name = setuid \o AutoSuffix /\ syscalls[1].CallName = setuid
  /\ syscalls[2].Name = setuid32 \o AutoSuffix /\ syscalls[2].CallName = setuid32

\* The policy names the emitted sendmsg declarations refer to.
ReferencedPolicies ==
  { Policy(c) : c \in { d \in Range(outFile.Syscalls) : d.CallName = sendmsg } }

ArmsFor(name) == { j \in 1..Len(outFile.Union) : outFile.Union[j].Policy = name }

\* C4 as claimed: every collected netlink struct whose name no retained
\* sendmsg declaration refers to is the policy of exactly one arm of
\* auto_union, and a struct whose name is referred to is the policy of none.
UnionExactlyOnce ==
  pc = "done" =>
    \A i \in 1..Len(netlinks) :
      Cardinality(ArmsFor(netlinks[i].Name)) =
        IF netlinks[i].Name \in ReferencedPolicies THEN 0 ELSE 1

\* C4 amended: auto_union has one arm per collected netlink struct whose name
\* no retained sendmsg declaration refers to (so as many arms for a name as
\* structs of that name were collected, one when the names are distinct), no
\* arm for a struct whose name is referred to, and no other arm; the arms are
\* named policy0, policy1, ... in order.
UnionOnePerStruct ==
  pc = "done" =>
    /\ \A i \in 1..Len(netlinks) :
         Cardinality(ArmsFor(netlinks[i].Name)) =
           IF netlinks[i].Name \in ReferencedPolicies THEN 0
           ELSE Cardinality({ j \in 1..Len(netlinks) : netlinks[j].Name = netlinks[i].Name })
    /\ \A j \in 1..Len(outFile.Union) :
         /\ \E i \in 1..Len(netlinks) : netlinks[i].Name = outFile.Union[j].Policy
         /\ outFile.Union[j].Name = PolicyWord \o Itoa(j - 1)

\* C4 witness: one collected struct is referred to by an emitted sendmsg
\* declaration and has no arm, another is not and is the only arm.
UnionOnePerStructWitness ==
  /\ pc = "done"
  /\ Len(outFile.Union) = 1
  /\ \E i, j \in 1..Len(netlinks) :
       /\ netlinks[i].Name \in ReferencedPolicies
       /\ netlinks[j].Name \notin ReferencedPolicies
       /\ outFile.Union[1].Policy = netlinks[j].Name

SendmsgOf(calls) == SelectSeq(calls, LAMBDA c : c.CallName = sendmsg)

\* The declaration c without the k-th suffix.
Unsuffixed(c, k) ==
  [c EXCEPT !.Name = SubSeq(@, 1, Len(@) - Len(Itoa(k - 1)))]

\* C5. Netlink-send non-collapse: the merged syscalls hold as many sendmsg
\* declarations as were collected; the k-th carries the suffix k-1 appended
\* to the name of a collected declaration and is otherwise unchanged, each
\* collected declaration as often as it was collected; the suffixed names are
\* pairwise distinct; the emitted sendmsg declarations are among them.
SendmsgNonCollapse ==
  pc = "done" =>
    LET before == SendmsgOf(syscalls)
        after == SendmsgOf(locals.syscalls)
    IN /\ Len(after) = Len(before)
       /\ \A k \in 1..Len(after) :
            /\ HasSuffix(after[k].Name, Itoa(k - 1))
            /\ Unsuffixed(after[k], k) \in Range(before)
       /\ \A d \in Range(before) :
            Cardinality({ k \in 1..Len(after) : Unsuffixed(after[k], k) = d }) =
            Cardinality({ i \in 1..Len(before) : before[i] = d })
       /\ \A i, j \in 1..Len(after) : i # j => after[i].Name # after[j].Name
       /\ \A c \in Range(SendmsgOf(outFile.Syscalls)) : c \in Range(after)

\* C5 witness: two sendmsg declarations equal in name and policy were
\* collected and both are in the merged syscalls.
SendmsgNonCollapseWitness ==
  /\ pc = "done"
  /\ \E i, j \in 1..Len(syscalls) :
       /\ i # j
       /\ syscalls[i].CallName = sendmsg
       /\ syscalls[j].CallName = sendmsg
       /\ syscalls[i].Name = syscalls[j].Name
       /\ Policy(syscalls[i]) = Policy(syscalls[j])
  /\ Len(SendmsgOf(locals.syscalls)) = 2

ArgNames(c) == [i \in 1..Len(c.Args) |-> c.Args[i].Name]

\* a <= b for sequences of strings, lexicographically.
LexLeq(a, b) == CompareFunc(a, b, Compare) <= 0

\* C6. Dedup tie-break: of the collected declarations other than sendmsg
\* that share an exposed name, exactly one is in the merged syscalls, and no
\* collected declaration of that name has a smaller sequence of argument names.
DedupTieBreak ==
  pc = "done" =>
    \A i \in 1..Len(syscalls) :
      syscalls[i].CallName # sendmsg =>
        LET same == { j \in 1..Len(syscalls) : syscalls[j].Name = syscalls[i].Name }
            kept == { k \in 1..Len(locals.syscalls) :
                        locals.syscalls[k].Name = syscalls[i].Name }
        IN /\ Cardinality(kept) = 1
           /\ \A k \in kept :
                /\ \E j \in same : locals.syscalls[k] = syscalls[j]
                /\ \A j \in same :
                     LexLeq(ArgNames(locals.syscalls[k]), ArgNames(syscalls[j]))

\* C6 witness: two declarations of one name were collected, the one with the
\* greater argument names first, and the merge is done.
DedupTieBreakWitness ==
  /\ pc = "done"
  /\ \E i, j \in 1..Len(syscalls) :
       /\ i < j
       /\ syscalls[i].CallName # sendmsg
       /\ syscalls[i].Name = syscalls[j].Name
       /\ ~LexLeq(ArgNames(syscalls[i]), ArgNames(syscalls[j]))

\* C7. Dangling-policy drop: the syscall section of the output is the merged
\* syscalls without the policy-qualified sendmsg declarations whose policy is
\* the name of no collected netlink struct, in the same order.
DanglingPolicyDrop ==
  pc = "done" =>
    outFile.Syscalls =
      SelectSeq(locals.syscalls, LAMBDA c :
        (c.CallName = sendmsg /\ Len(c.Args[2].Type.Args) = 2) =>
          Policy(c) \in { netlinks[i].Name : i \in 1..Len(netlinks) })

\* C7 witness: one sendmsg declaration was dropped for its dangling policy,
\* another is emitted, and the netlink structs were not collected in order.
DanglingPolicyDropWitness ==
  /\ pc = "done"
  /\ Len(outFile.Syscalls) < Len(locals.syscalls)
  /\ SendmsgOf(outFile.Syscalls) # << >>
  /\ Len(netlinks) = 2
  /\ Compare(netlinks[1].Name, netlinks[2].Name) > 0

\* C10. After the sort, the suffixing and the compaction no two merged
\* syscalls have the same exposed name, and a declaration that the compaction
\* removed had, before the suffixing, the exposed name of a declaration that
\* is kept.
NoNameClash ==
  pc = "done" =>
    LET sorted == SortSyscalls(syscalls)
        suffixed == SuffixSendmsg(sorted)
        merged == locals.syscalls
    IN /\ \A i, j \in 1..Len(merged) : i # j => merged[i].Name # merged[j].Name
       /\ \A k \in 1..Len(suffixed) :
            \/ suffixed[k] \in Range(merged)
            \/ \E j \in 1..Len(suffixed) :
                 /\ suffixed[j] \in Range(merged)
                 /\ sorted[j].Name = sorted[k].Name

\* C10 witness: the name of a collected sendmsg declaration followed by "0"
\* is the name of another collected declaration, and a declaration was removed
\* by the compaction.
NoNameClashWitness ==
  /\ pc = "done"
  /\ \E i, j \in 1..Len(syscalls) :
       /\ syscalls[i].CallName = sendmsg
       /\ syscalls[i].Name \o << "0" >> = syscalls[j].Name
  /\ Len(locals.syscalls) = Len(syscalls)

====
